---- MODULE Spec2Model ----
(***************************************************************************)
(* GAIA v6.7 scoring engine (src/gaia_v67.py) behind its FastAPI front    *)
(* end (src/gaia_api.py).                                                  *)
(*                                                                         *)
(* Numbers.  The engine computes on Python floats.  The model computes on  *)
(* exact fixed-point integers, ONE units to 1.0.  ONE = 1200 makes every   *)
(* operation of the engine exact on the input grid used here: metrics are  *)
(* multiples of 0.05 (60 units), noise draws are multiples of 1/60 (20     *)
(* units), so (cpu+memory+network)/3 is a multiple of 20, the spike        *)
(* factor 1.5 yields a multiple of 10, 0.1 * threat is an integer, and     *)
(* 0.01 per second of recovery is 12 units.  Floating-point rounding is    *)
(* not modelled.                                                           *)
(*                                                                         *)
(* Time.  time.time() is the variable now, in ticks of TickSeconds; it     *)
(* advances by Tick at any moment, also in the middle of a process_event   *)
(* call.  The clock is taken to be monotone.                               *)
(*                                                                         *)
(* Calls are numbered in the order in which the event loop starts them.    *)
(*                                                                         *)
(* Scheduling.  gaia_api.py serves every route with an `async def` handler *)
(* on one asyncio event loop.  A coroutine keeps the loop until it reaches *)
(* an await that suspends it.  running is the call that holds the loop (0  *)
(* when the loop is idle); a handler can start only when the loop is idle. *)
(***************************************************************************)
EXTENDS Integers, Sequences, FiniteSets, TLC

\* ------------------------------------------------------------------ bounds
\* number of POST /event requests issued concurrently
NumCalls == 3
\* last reading of the wall clock, in ticks
MaxTime == 1
\* Config.max_threats_history (1000 in the source), scaled down
max_threats_history == 2
\* Config.max_latencies_history (1000 in the source), scaled down
max_latencies_history == 2
\* number of events the sequential harness feeds to its two engines
TwinEvents == 2
\* number of events of the long sequential run
SoloEvents == 11
\* steps of 0.05 by which the metric grid extends below 0 and above 1
GridMargin == 2

\* --------------------------------------------------------- program constants
\* fixed-point image of the float 1.0
ONE == 1200
\* Config.max_consciousness = 1.0
max_consciousness == ONE
\* Config.min_consciousness = 0.0
min_consciousness == 0
\* GAIA.__init__: self.consciousness = 0.5
InitialConsciousness == ONE \div 2
\* event.get('cpu', 0.5), event.get('memory', 0.5), event.get('network', 0.0)
DefaultCpu == ONE \div 2
DefaultMemory == ONE \div 2
DefaultNetwork == 0 * ONE
\* random.uniform(-0.1, 0.1): the draws the grid keeps
NoiseBound == ONE \div 10
NoiseVals == {-NoiseBound, 0, NoiseBound}
\* if cpu > 0.9 or memory > 0.9
SpikeLevel == (9 * ONE) \div 10
\* recovery = min(0.05, time_since_last * 0.01)
RecoveryCap == (5 * ONE) \div 100
RecoveryRate == ONE \div 100
\* seconds between two readings of the clock that differ by one tick
TickSeconds == 5

Min(a, b) == IF a < b THEN a ELSE b
Max(a, b) == IF a > b THEN a ELSE b

RECURSIVE Sum(_)
Sum(s) == IF s = <<>> THEN 0 ELSE Head(s) + Sum(Tail(s))

\* ---------------------------------------------------------------- inputs
\* the samples of the specification's scenarios A and B; the second is the
\* event of the consciousness_bounds test
BaselineSample == [cpu |-> ONE \div 2, memory |-> ONE \div 2, network |-> ONE \div 10]
FullLoad == [cpu |-> ONE, memory |-> ONE, network |-> ONE]

\* The event dicts a caller posts.  A dict is a function from the keys it
\* holds to numbers; a key may be missing, a number may lie outside [0,1].
EventSet ==
  { [cpu |-> ONE, memory |-> ONE, network |-> ONE],
    [cpu |-> ONE \div 2, memory |-> ONE \div 2, network |-> ONE \div 10],
    [cpu |-> -ONE, memory |-> 0, network |-> 0],
    [network |-> (3 * ONE) \div 10] }

\* dict.get(key, default)
Get(event, key, default) == IF key \in DOMAIN event THEN event[key] ELSE default

\* ------------------------------------------------------------ the engine
\* GAIA._calculate_threat_level, with the random.uniform draw as a parameter
calculate_threat_level_swapped(cpu, memory, network, noise) ==
  LET base_threat == (cpu + memory + network) \div 3
      threat == Min(0, Max(ONE, base_threat + noise))
  IN  IF cpu > SpikeLevel \/ memory > SpikeLevel
      THEN Min(ONE, (threat * 3) \div 2)
      ELSE threat
calculate_threat_level_both(cpu, memory, network, noise) ==
  LET base_threat == (cpu + memory + network) \div 3
      threat == Max(0, Min(ONE, base_threat + noise))
  IN  IF cpu > SpikeLevel /\ memory > SpikeLevel
      THEN Min(ONE, (threat * 3) \div 2)
      ELSE threat
calculate_threat_level(cpu, memory, network, noise) ==
  LET base_threat == (cpu + memory + network) \div 3
      threat == Max(0, Min(ONE, base_threat + noise))
  IN  IF cpu > SpikeLevel \/ memory > SpikeLevel
      THEN Min(ONE, (threat * 3) \div 2)
      ELSE threat

update_consciousness_unclamped(c, threat_level, time_since_last) ==
  LET threat_impact == -(threat_level \div 10)
      recovery == Min(RecoveryCap, time_since_last * RecoveryRate)
  IN  c + threat_impact + recovery

update_consciousness_weak(c, threat_level, time_since_last) ==
  LET threat_impact == -(threat_level \div 20)
      recovery == Min(RecoveryCap, time_since_last * RecoveryRate)
      new_consciousness == c + threat_impact + recovery
  IN  Max(min_consciousness, Min(max_consciousness, new_consciousness))

update_consciousness_rising(c, threat_level, time_since_last) ==
  LET threat_impact == threat_level \div 10
      recovery == Min(RecoveryCap, time_since_last * RecoveryRate)
      new_consciousness == c + threat_impact + recovery
  IN  Max(min_consciousness, Min(max_consciousness, new_consciousness))

\* GAIA._update_consciousness, with time.time() - self._last_event_time as a
\* parameter; returns the new self.consciousness
update_consciousness(c, threat_level, time_since_last) ==
  LET threat_impact == -(threat_level \div 10)
      recovery == Min(RecoveryCap, time_since_last * RecoveryRate)
      new_consciousness == c + threat_impact + recovery
  IN  Max(min_consciousness, Min(max_consciousness, new_consciousness))

TrimHistoryShort(h, cap) ==
  IF Len(h) > cap THEN SubSeq(h, Len(h) - cap + 2, Len(h)) ELSE h
TrimHistoryKeepOldest(h, cap) ==
  IF Len(h) > cap THEN SubSeq(h, 1, cap) ELSE h
\* if len(h) > cap: h = h[-cap:]
TrimHistory(h, cap) ==
  IF Len(h) > cap THEN SubSeq(h, Len(h) - cap + 1, Len(h)) ELSE h

\* self.cycle_count += 1: the value stored, from the value read
NextCycleTwice(c) == c + 2
NextCycle(c) == c + 1

\* The labels of process_event at which the coroutine suspends and gives the
\* event loop to another handler: its body holds no await, so there is none.
AwaitPointsInBody == {"trim_threats", "conscious"}
AwaitPointsAtStore == {"store"}
AwaitPointsAtReturn == {"return"}
AwaitPoints == {}

\* GAIA.get_status over the engine fields
get_status_last(c, n, th, la) ==
  [ consciousness |-> c,
    cycle_count |-> n,
    threats_count |-> Len(th),
    latencies_count |-> Len(la),
    last_threat |-> IF th /= <<>> THEN th[Len(th)] ELSE 0,
    last_latency |-> IF la /= <<>> THEN la[Len(la)] ELSE 0,
    avg_threat |-> IF th /= <<>> THEN th[Len(th)] ELSE 0,
    avg_latency |-> IF la /= <<>> THEN la[Len(la)] ELSE 0 ]
get_status(c, n, th, la) ==
  [ consciousness |-> c,
    cycle_count |-> n,
    threats_count |-> Len(th),
    latencies_count |-> Len(la),
    last_threat |-> IF th /= <<>> THEN th[Len(th)] ELSE 0,
    last_latency |-> IF la /= <<>> THEN la[Len(la)] ELSE 0,
    avg_threat |-> IF th /= <<>> THEN Sum(th) \div Len(th) ELSE 0,
    avg_latency |-> IF la /= <<>> THEN Sum(la) \div Len(la) ELSE 0 ]

\* ----------------------------------------------------------------- state
VARIABLES
  cycle_count,      \* GAIA.cycle_count
  consciousness,    \* GAIA.consciousness
  threats,          \* GAIA.threats
  latencies,        \* GAIA.latencies
  last_event_time,  \* GAIA._last_event_time
  now,              \* time.time()
  pc,               \* position of each process_event call
  frame,            \* locals of each process_event call
  ret,              \* the dict each call returned
  running,          \* the call holding the event loop, 0 when idle
  snap,             \* the dict get_status returned to the reader that ran
                    \* last, <<>> once the loop has gone to another handler
  twin,             \* two GAIA objects of the sequential harness
  fed,              \* the events the harness has fed to both
  solo,             \* the GAIA object of a long sequential run
  solo_run,         \* what the long run has fed: its last event, and
                    \* whether every event so far was the full-load one
  fn                \* one application of _calculate_threat_level

engineVars == <<cycle_count, consciousness, threats, latencies, last_event_time>>
harnessVars == <<twin, fed, solo, solo_run, fn>>
vars == <<cycle_count, consciousness, threats, latencies, last_event_time,
          now, pc, frame, ret, running, snap, twin, fed, solo, solo_run, fn>>

Calls == 1 .. NumCalls

EmptyFrame ==
  [ event |-> <<>>, threat_level |-> 0, start_time |-> 0,
    end_time |-> 0, latency_ms |-> 0, cycle_read |-> 0 ]

NoResult ==
  [ status |-> "none", cycle |-> 0, consciousness |-> 0, threat_level |-> 0,
    latency_ms |-> 0, timestamp |-> 0 ]

\* GAIA.__init__ as a value: a fresh engine, constructed at clock 0
NewGAIA ==
  [ clock |-> 0, cycle_count |-> 0, consciousness |-> InitialConsciousness,
    threats |-> <<>>, latencies |-> <<>>, last_event_time |-> 0 ]

\* the long run before its first event
NoRun == [ last_event |-> <<>>, only_full_load |-> TRUE ]

\* the engines the harness builds with one Config
Engines == 1 .. 2

FnIdle ==
  [ stage |-> "idle", cpu |-> 0, memory |-> 0, network |-> 0, noise |-> 0,
    threat_level |-> 0 ]

\* GAIA.__init__ at import of gaia_api, every request still to be served
Init ==
  /\ cycle_count = 0
  /\ consciousness = InitialConsciousness
  /\ threats = <<>>
  /\ latencies = <<>>
  /\ now = 0
  /\ last_event_time = now
  /\ pc = [t \in Calls |-> "ready"]
  /\ frame = [t \in Calls |-> EmptyFrame]
  /\ ret = [t \in Calls |-> NoResult]
  /\ running = 0
  /\ snap = <<>>
  /\ twin = [e \in Engines |-> NewGAIA]
  /\ fed = <<>>
  /\ solo = NewGAIA
  /\ solo_run = NoRun
  /\ fn = FnIdle

\* The loop after call t moved to label l: kept unless l is an await point
Hold(t, l) == IF l \in AwaitPoints THEN 0 ELSE t

\* call t may take its step at label l
At(t, l) ==
  /\ pc[t] = l
  /\ running \in {0, t}

\* the wall clock advances
Tick ==
  /\ now < MaxTime
  /\ now' = now + 1
  /\ UNCHANGED <<harnessVars, engineVars, pc, frame, ret, running, snap>>

\* event(): ev = {...}; process_event lines 40-45
Begin(t) ==
  /\ pc[t] = "ready"
  /\ \A u \in Calls : u < t => pc[u] /= "ready"
  /\ running = 0
  /\ \E ev \in EventSet :
       frame' = [frame EXCEPT ![t] = [@ EXCEPT !.event = ev, !.start_time = now]]
  /\ pc' = [pc EXCEPT ![t] = "threat"]
  /\ running' = Hold(t, "threat")
  /\ snap' = <<>>
  /\ UNCHANGED <<harnessVars, engineVars, now, ret>>

\* lines 48-49
CalcThreat(t) ==
  /\ At(t, "threat")
  /\ \E noise \in NoiseVals :
       LET ev == frame[t].event
           threat_level ==
             calculate_threat_level(Get(ev, "cpu", DefaultCpu),
                                    Get(ev, "memory", DefaultMemory),
                                    Get(ev, "network", DefaultNetwork), noise)
       IN  /\ frame' = [frame EXCEPT ![t].threat_level = threat_level]
           /\ threats' = Append(threats, threat_level)
  /\ pc' = [pc EXCEPT ![t] = "trim_threats"]
  /\ running' = Hold(t, "trim_threats")
  /\ UNCHANGED <<harnessVars, cycle_count, consciousness, latencies, last_event_time,
                 now, ret, snap>>

\* lines 52-53
TrimThreats(t) ==
  /\ At(t, "trim_threats")
  /\ threats' = TrimHistory(threats, max_threats_history)
  /\ pc' = [pc EXCEPT ![t] = "conscious"]
  /\ running' = Hold(t, "conscious")
  /\ UNCHANGED <<harnessVars, cycle_count, consciousness, latencies, last_event_time,
                 now, frame, ret, snap>>

\* line 56
UpdateConsciousness(t) ==
  /\ At(t, "conscious")
  /\ consciousness' = update_consciousness(consciousness, frame[t].threat_level,
                                           (now - last_event_time) * TickSeconds)
  /\ pc' = [pc EXCEPT ![t] = "latency"]
  /\ running' = Hold(t, "latency")
  /\ UNCHANGED <<harnessVars, cycle_count, threats, latencies, last_event_time,
                 now, frame, ret, snap>>

\* lines 59-61
StoreLatency(t) ==
  /\ At(t, "latency")
  /\ LET latency_ms == (now - frame[t].start_time) * TickSeconds * 1000
     IN  /\ frame' = [frame EXCEPT ![t] = [@ EXCEPT !.end_time = now,
                                                    !.latency_ms = latency_ms]]
         /\ latencies' = Append(latencies, latency_ms)
  /\ pc' = [pc EXCEPT ![t] = "trim_latencies"]
  /\ running' = Hold(t, "trim_latencies")
  /\ UNCHANGED <<harnessVars, cycle_count, consciousness, threats, last_event_time,
                 now, ret, snap>>

\* lines 64-65
TrimLatencies(t) ==
  /\ At(t, "trim_latencies")
  /\ latencies' = TrimHistory(latencies, max_latencies_history)
  /\ pc' = [pc EXCEPT ![t] = "incr"]
  /\ running' = Hold(t, "incr")
  /\ UNCHANGED <<harnessVars, cycle_count, consciousness, threats, last_event_time,
                 now, frame, ret, snap>>

\* line 68, self.cycle_count += 1: the attribute is read
LoadCycle(t) ==
  /\ At(t, "incr")
  /\ frame' = [frame EXCEPT ![t].cycle_read = cycle_count]
  /\ pc' = [pc EXCEPT ![t] = "store"]
  /\ running' = Hold(t, "store")
  /\ UNCHANGED <<harnessVars, engineVars, now, ret, snap>>

\* line 68, the sum is stored; line 69
StoreCycle(t) ==
  /\ At(t, "store")
  /\ cycle_count' = NextCycle(frame[t].cycle_read)
  /\ last_event_time' = frame[t].end_time
  /\ pc' = [pc EXCEPT ![t] = "return"]
  /\ running' = Hold(t, "return")
  /\ UNCHANGED <<harnessVars, consciousness, threats, latencies, now, frame, ret, snap>>

\* lines 72-79: the call returns and its handler gives the loop back
Return(t) ==
  /\ At(t, "return")
  /\ ret' = [ret EXCEPT ![t] =
               [ status |-> "processed",
                 cycle |-> cycle_count,
                 consciousness |-> consciousness,
                 threat_level |-> frame[t].threat_level,
                 latency_ms |-> frame[t].latency_ms,
                 timestamp |-> frame[t].end_time ]]
  /\ frame' = [frame EXCEPT ![t] = EmptyFrame]
  /\ pc' = [pc EXCEPT ![t] = "done"]
  /\ running' = 0
  /\ UNCHANGED <<harnessVars, engineVars, now, snap>>

\* a reader handler runs get_status while the loop is idle
Status ==
  /\ running = 0
  /\ snap' = <<get_status(consciousness, cycle_count, threats, latencies)>>
  /\ snap' /= snap
  /\ UNCHANGED <<harnessVars, engineVars, now, pc, frame, ret, running>>

Next ==
  \/ Tick
  \/ \E t \in Calls : Begin(t)
  \/ \E t \in Calls : CalcThreat(t)
  \/ \E t \in Calls : TrimThreats(t)
  \/ \E t \in Calls : UpdateConsciousness(t)
  \/ \E t \in Calls : StoreLatency(t)
  \/ \E t \in Calls : TrimLatencies(t)
  \/ \E t \in Calls : LoadCycle(t)
  \/ \E t \in Calls : StoreCycle(t)
  \/ \E t \in Calls : Return(t)
  \/ Status

Spec == Init /\ [][Next]_vars

TypeOK ==
  /\ cycle_count \in 0 .. NumCalls
  /\ consciousness \in Int
  /\ running \in 0 .. NumCalls
  /\ now \in 0 .. MaxTime

\* ---------------------------------------------- the sequential harness
\* run_tests and run_benchmark await one process_event after the other.  The
\* harness here builds two engines with one Config and feeds both the same
\* events in the same order; each engine draws its own noise and reads its
\* own clock.  A call completes within one tick of the engine's clock.

\* GAIA.process_event as one step on the engine value g: the event ev, the
\* noise draw, and the clock readings of lines 40, 102 and 59
process_event(g, ev, noise, start_time, update_time, end_time) ==
  LET threat_level ==
        calculate_threat_level(Get(ev, "cpu", DefaultCpu),
                               Get(ev, "memory", DefaultMemory),
                               Get(ev, "network", DefaultNetwork), noise)
      latency_ms == (end_time - start_time) * TickSeconds * 1000
  IN  [ clock |-> end_time,
        cycle_count |-> NextCycle(g.cycle_count),
        consciousness |->
          update_consciousness(g.consciousness, threat_level,
                               (update_time - g.last_event_time) * TickSeconds),
        threats |-> TrimHistory(Append(g.threats, threat_level),
                                max_threats_history),
        latencies |-> TrimHistory(Append(g.latencies, latency_ms),
                                  max_latencies_history),
        last_event_time |-> end_time ]

\* the harness feeds one more event to both engines
TwinFeed ==
  /\ Len(fed) < TwinEvents
  /\ \E ev \in EventSet :
       /\ fed' = Append(fed, ev)
       /\ \E noise \in [Engines -> NoiseVals] :
          \E wait \in [Engines -> 0 .. 1] :
            /\ \A e \in Engines : twin[e].clock + wait[e] <= MaxTime
            /\ twin' = [e \in Engines |->
                          LET t == twin[e].clock + wait[e]
                          IN  process_event(twin[e], ev, noise[e], t, t, t)]
  /\ UNCHANGED <<engineVars, now, pc, frame, ret, running, snap, solo, solo_run, fn>>

NextTwin == TwinFeed

SpecTwin == Init /\ [][NextTwin]_vars

\* ------------------------------------------------------- the long run
\* run_benchmark feeds one engine cycles events in a row.  The code uses
\* clock readings only through their differences, so the clock of this
\* engine is kept relative to its last event: each call reads the clock
\* wait ticks after the previous call ended, and ends at the new origin.
SoloFeed ==
  /\ solo.cycle_count < SoloEvents
  /\ \E ev \in EventSet : \E noise \in NoiseVals : \E wait \in 0 .. 1 :
       LET g == process_event(solo, ev, noise, wait, wait, wait)
       IN  /\ solo' = [g EXCEPT !.clock = 0, !.last_event_time = 0]
           /\ solo_run' = [ last_event |-> ev,
                            only_full_load |->
                              solo_run.only_full_load /\ ev = FullLoad ]
  /\ UNCHANGED <<engineVars, now, pc, frame, ret, running, snap, twin, fed, fn>>

NextSolo == SoloFeed

SpecSolo == Init /\ [][NextSolo]_vars

\* ------------------------------------- _calculate_threat_level by itself
\* the metric values of the grid: multiples of 0.05 from below 0 to above 1
MetricGrid == { (ONE \div 20) * k : k \in -GridMargin .. 20 + GridMargin }
\* the noise draws of the grid: multiples of 1/60 in [-0.1, 0.1]
NoiseGrid == { (ONE \div 60) * k : k \in -6 .. 6 }

InitThreat ==
  /\ cycle_count = 0
  /\ consciousness = InitialConsciousness
  /\ threats = <<>>
  /\ latencies = <<>>
  /\ now = 0
  /\ last_event_time = now
  /\ pc = [t \in Calls |-> "ready"]
  /\ frame = [t \in Calls |-> EmptyFrame]
  /\ ret = [t \in Calls |-> NoResult]
  /\ running = 0
  /\ snap = <<>>
  /\ twin = [e \in Engines |-> NewGAIA]
  /\ fed = <<>>
  /\ solo = NewGAIA
  /\ solo_run = NoRun
  /\ fn \in [ stage : {"args"}, cpu : MetricGrid, memory : MetricGrid,
               network : MetricGrid, noise : NoiseGrid, threat_level : {0} ]

\* threat_level = self._calculate_threat_level(cpu, memory, network)
ApplyThreat ==
  /\ fn.stage = "args"
  /\ fn' = [fn EXCEPT !.stage = "returned",
                      !.threat_level =
                        calculate_threat_level(fn.cpu, fn.memory, fn.network,
                                               fn.noise)]
  /\ UNCHANGED <<engineVars, now, pc, frame, ret, running, snap, twin, fed,
                 solo, solo_run>>

NextThreat == ApplyThreat

SpecThreat == InitThreat /\ [][NextThreat]_vars

\* ------------------------------------------------------------ properties
Done(t) == pc[t] = "done"
LoopIdle == running = 0

\* C1: after every process_event call of a run of any length the stored
\* consciousness lies in [0,1] and the threat_level the call scored lies in
\* [0,1], also for events whose fields lie outside [0,1].
C1_Bounds ==
  /\ 0 <= solo.consciousness /\ solo.consciousness <= ONE
  /\ \A i \in 1 .. Len(solo.threats) :
        0 <= solo.threats[i] /\ solo.threats[i] <= ONE

\* the run has driven consciousness to a bound, and the last call scored the
\* threat level 0 that only the clamp of a negative sum yields
C1_Witness ==
  /\ solo.cycle_count > 5
  /\ solo.consciousness \in {0, ONE}
  /\ solo.threats[Len(solo.threats)] = 0

\* C2: whenever a caller can observe the engine (the event loop is free to
\* run its handler), len(threats) <= max_threats_history and
\* len(latencies) <= max_latencies_history, and so are the sizes a
\* get_status reports, however many events were processed.
C2_Bounded ==
  /\ LoopIdle => /\ Len(threats) <= max_threats_history
                 /\ Len(latencies) <= max_latencies_history
  /\ snap /= <<>> => /\ snap[1].threats_count <= max_threats_history
                     /\ snap[1].latencies_count <= max_latencies_history

\* more events than the histories hold were processed and a reader saw the
\* histories full
C2_Witness ==
  /\ cycle_count > max_threats_history
  /\ cycle_count > max_latencies_history
  /\ snap /= <<>>
  /\ snap[1].threats_count = max_threats_history
  /\ snap[1].latencies_count = max_latencies_history

\* C3: once all NumCalls concurrently issued calls have completed,
\* cycle_count = NumCalls: no increment is lost.
C3_NoLostUpdate ==
  (\A t \in Calls : Done(t)) => cycle_count = NumCalls

C3_Witness ==
  /\ \A t \in Calls : Done(t)
  /\ cycle_count = NumCalls
  /\ NumCalls > 1

\* call t has changed the engine and has not returned: its threat sample is
\* appended (lines 49-79)
MidUpdate(t) ==
  pc[t] \in {"trim_threats", "conscious", "latency", "trim_latencies",
             "incr", "store", "return"}

\* C4: whenever a reader handler (get_status, /status, /metrics, /health)
\* can run, no call is between appending its threat sample and its return
\* (so none has appended without updating consciousness, none has counted
\* without it), and the sizes a get_status reports agree with its count.
C4_NoTornRead ==
  /\ LoopIdle => \A t \in Calls : ~MidUpdate(t)
  /\ snap /= <<>> =>
       snap[1].threats_count = Min(snap[1].cycle_count, max_threats_history)

\* a reader ran between two calls: one call is done, another not started
C4_Witness ==
  /\ snap /= <<>>
  /\ snap[1].cycle_count >= 1
  /\ \E t \in Calls : pc[t] = "ready"

\* C5: the step of a process_event call that stores cycle_count raises it
\* by exactly 1, no other step of the call changes it, and get_status
\* leaves it unchanged.
C5_CycleStep ==
  [][ /\ (\E t \in Calls : pc[t] = "store" /\ pc'[t] = "return")
           => cycle_count' = cycle_count + 1
      /\ ~(\E t \in Calls : pc[t] = "store" /\ pc'[t] = "return")
           => cycle_count' = cycle_count
      /\ (snap' /= snap /\ snap' /= <<>>)
           => /\ cycle_count' = cycle_count
              /\ snap'[1].cycle_count = cycle_count ]_vars

\* a get_status ran after a call and a later call raised the count again
C5_Witness ==
  /\ cycle_count >= 2
  /\ snap /= <<>>
  /\ snap[1].cycle_count = cycle_count

\* C6: after more calls than max_threats_history, threats holds exactly
\* max_threats_history entries: the threat levels of the most recent calls,
\* in arrival order (calls are numbered in arrival order).
C6_Fifo ==
  (LoopIdle /\ cycle_count > max_threats_history) =>
     /\ Len(threats) = max_threats_history
     /\ \A i \in 1 .. max_threats_history :
          LET k == cycle_count - max_threats_history + i
          IN  /\ Done(k)
              /\ threats[i] = ret[k].threat_level

\* the evicted entry differs from every retained one
C6_Witness ==
  /\ LoopIdle
  /\ cycle_count > max_threats_history
  /\ Len(threats) = max_threats_history
  /\ \A i \in 1 .. Len(threats) : threats[i] /= ret[1].threat_level

\* C7: two engines built with one Config and fed the same events in the
\* same order have the same consciousness after every event.
C7_Deterministic ==
  twin[1].consciousness = twin[2].consciousness

Abs(x) == IF x < 0 THEN -x ELSE x

FnSample == [cpu |-> fn.cpu, memory |-> fn.memory, network |-> fn.network]

Clamp01(x) == Max(0, Min(ONE, x))

\* C11: every sample field is clamped to [0,1] before the threat
\* computation uses it: the threat level of a sample is the threat level of
\* the sample with each field clamped.
C11_FieldsClamped ==
  fn.stage = "returned" =>
    fn.threat_level =
      calculate_threat_level(Clamp01(fn.cpu), Clamp01(fn.memory),
                             Clamp01(fn.network), fn.noise)

\* C12: the dict every process_event call returns carries an emergence
\* value, and that value lies in [0,1].
C12_HasEmergence ==
  \A t \in Calls : Done(t) =>
    /\ "emergence" \in DOMAIN ret[t]
    /\ 0 <= ret[t].emergence /\ ret[t].emergence <= ONE

\* average and (population) variance of a window of threat levels
Average(h) == Sum(h) \div Len(h)
RECURSIVE SumSquares(_, _)
SumSquares(h, m) ==
  IF h = <<>> THEN 0
  ELSE (Head(h) - m) * (Head(h) - m) + SumSquares(Tail(h), m)
Variance(h) == (SumSquares(h, Average(h)) \div Len(h)) \div ONE

IsMean(m, h) ==
  IF h = <<>> THEN m = 0
  ELSE Len(h) * m <= Sum(h) /\ Sum(h) < Len(h) * (m + 1)

\* C14: in every state, the fresh engine included, the dict get_status
\* returned holds the stored cycle_count and consciousness, the means of
\* the retained threats and latencies (0 when there is none) and the
\* lengths of the two histories.
C14_StatusFaithful ==
  snap /= <<>> =>
    /\ DOMAIN snap[1] = { "consciousness", "cycle_count", "threats_count",
                          "latencies_count", "last_threat", "last_latency",
                          "avg_threat", "avg_latency" }
    /\ snap[1].cycle_count = cycle_count
    /\ snap[1].consciousness = consciousness
    /\ snap[1].threats_count = Len(threats)
    /\ snap[1].latencies_count = Len(latencies)
    /\ IsMean(snap[1].avg_threat, threats)
    /\ IsMean(snap[1].avg_latency, latencies)

\* a status was read with two different threat levels and two different
\* latencies retained, so that the means are those of neither entry
C14_Witness ==
  /\ snap /= <<>>
  /\ snap[1].threats_count = 2
  /\ threats[1] /= threats[2]
  /\ snap[1].avg_threat /= snap[1].last_threat
  /\ snap[1].latencies_count = 2
  /\ latencies[1] /= latencies[2]

\* C15: a sample with cpu > 0.9 and memory >= 0.8 and network >= 0.8 is
\* scored with a threat level above 0.7, whatever the noise draw.
C15_HighLoadHighThreat ==
  ( /\ fn.stage = "returned"
    /\ fn.cpu > (9 * ONE) \div 10
    /\ fn.memory >= (8 * ONE) \div 10
    /\ fn.network >= (8 * ONE) \div 10 )
  => fn.threat_level > (7 * ONE) \div 10

\* the event of the high_threat_detection test was scored with the lowest
\* noise draw
C15_Witness ==
  /\ fn.stage = "returned"
  /\ fn.cpu = (95 * ONE) \div 100
  /\ fn.memory = (9 * ONE) \div 10
  /\ fn.network = (8 * ONE) \div 10
  /\ fn.noise = -(ONE \div 10)
  /\ fn.threat_level > (7 * ONE) \div 10

\* C16: whenever no process_event call is in progress, each history holds
\* min(cycle_count, cap) entries: the histories and the counter stay in step.
C16_HistoriesInStep ==
  LoopIdle =>
    /\ Len(threats) = Min(cycle_count, max_threats_history)
    /\ Len(latencies) = Min(cycle_count, max_latencies_history)

\* every call has completed, the counter has passed both caps and both
\* histories sit exactly at their cap
C16_Witness ==
  /\ \A t \in Calls : Done(t)
  /\ cycle_count = NumCalls
  /\ cycle_count > max_threats_history
  /\ cycle_count > max_latencies_history
  /\ Len(threats) = max_threats_history
  /\ Len(latencies) = max_latencies_history

\* C17: every {cpu 1.0, memory 1.0, network 1.0} sample is scored exactly
\* 1.0 whatever the noise, and lowers consciousness by at least 0.05 (or to
\* 0) whatever the elapsed time; an engine fed nothing else from its initial
\* 0.5 is at 0 from its 10th event on.
C17_FullLoadDrains ==
  /\ [][ (solo'.cycle_count = solo.cycle_count + 1
           /\ solo_run'.last_event = FullLoad) =>
            /\ solo'.threats[Len(solo'.threats)] = ONE
            /\ solo'.consciousness
                 <= Max(0, solo.consciousness - ONE \div 20) ]_vars
  /\ [] ( (solo_run.only_full_load /\ solo.cycle_count >= 10) =>
            solo.consciousness = 0 )

\* an engine that has seen more than 10 full-load samples and nothing else
C17_Witness ==
  /\ solo_run.only_full_load
  /\ solo_run.last_event = FullLoad
  /\ solo.cycle_count > 10
  /\ solo.consciousness = 0

\* C18: one process_event moves consciousness by at most +0.05 and by no
\* more than -0.1.
C18_StepBounded ==
  [][ /\ solo.consciousness - ONE \div 10 <= solo'.consciousness
      /\ solo'.consciousness <= solo.consciousness + ONE \div 20 ]_vars

\* a harmless event after a pause raised consciousness by the full 0.05,
\* then a full-load event without pause lowered it by the full 0.1
C18_Witness ==
  /\ solo.cycle_count = 2
  /\ solo.threats = <<0, ONE>>
  /\ solo.consciousness = InitialConsciousness + ONE \div 20 - ONE \div 10

\* C19: at the step where a process_event call returns, no other call is
\* inside process_event, so the cycle it returns is the count it stored
\* itself and the consciousness it returns is the value it wrote; the k-th
\* call to complete returns cycle k, and no completed call returned the
\* same cycle.
C19_ReturnsOwnUpdate ==
  [][ \A t \in Calls : (pc[t] = "return" /\ pc'[t] = "done") =>
        /\ \A u \in Calls \ {t} : pc[u] \in {"ready", "done"}
        /\ ret'[t].cycle = NextCycle(frame[t].cycle_read)
        /\ ret'[t].cycle = cycle_count'
        /\ ret'[t].consciousness = consciousness'
        /\ ret'[t].cycle = Cardinality({u \in Calls : Done(u)}) + 1
        /\ \A u \in Calls \ {t} : Done(u) => ret[u].cycle /= ret'[t].cycle
    ]_vars

\* all calls have returned, with pairwise distinct cycles 1 .. NumCalls and
\* not all the same consciousness
C19_Witness ==
  /\ \A t \in Calls : Done(t) /\ ret[t].cycle = t
  /\ ret[NumCalls].cycle = cycle_count
  /\ ret[NumCalls].consciousness = consciousness
  /\ ret[1].consciousness /= ret[NumCalls].consciousness
====
